---- MODULE Spec2Model ----
(***************************************************************************)
(* A model of githeat.py: the pipeline of main() (argument handling, git   *)
(* log retrieval, log parsing, window initialisation, aggregation,         *)
(* normalisation) and of graph_block() (grid building and rendering).      *)
(*                                                                         *)
(* Dates are Python proleptic Gregorian ordinals (datetime.date.toordinal),*)
(* so weekdays, month lengths and leap years are those of the calendar the *)
(* program runs on.  Counts are the floats 0.0, 1.0, ... of the program,   *)
(* written as integers; the one division of the program is modelled by the *)
(* exact quotient, which agrees with the float result for every count the  *)
(* model draws.                                                            *)
(*                                                                         *)
(* The options --type, --stat and --block keep their defaults: the graph   *)
(* is the block graph, no statistics are printed and no separator follows  *)
(* a block.                                                                *)
(***************************************************************************)
EXTENDS Integers, Sequences, FiniteSets, TLC

(***************************************************************************)
(* Bounds of the model.                                                    *)
(***************************************************************************)
\* longest window handed to graph_block on its own (SpecGrid)
MaxLen == 15
\* largest raw count and largest dictionary handed to normalize (SpecNorm)
MaxCount == 5
MaxKeys == 4
\* most commits in the repository's history (SpecMain)
MaxCommits == 2

(***************************************************************************)
(* The calendar (datetime, dateutil.relativedelta, strftime).              *)
(***************************************************************************)
IsLeap(y) == (y % 4 = 0) /\ ((y % 100 # 0) \/ (y % 400 = 0))

DaysInMonth(y, m) ==
    IF m = 2 THEN (IF IsLeap(y) THEN 29 ELSE 28)
    ELSE IF m \in {4, 6, 9, 11} THEN 30 ELSE 31

DaysBeforeYear(y) ==
    (y - 1) * 365 + ((y - 1) \div 4) - ((y - 1) \div 100) + ((y - 1) \div 400)

RECURSIVE DaysBeforeMonth(_, _)
DaysBeforeMonth(y, m) ==
    IF m = 1 THEN 0 ELSE DaysBeforeMonth(y, m - 1) + DaysInMonth(y, m - 1)

\* datetime.date(y, m, d).toordinal()
ToOrdinal(y, m, d) == DaysBeforeYear(y) + DaysBeforeMonth(y, m) + d

\* date.fromordinal(n), as the record of its year, month and day
fromordinal(n) ==
    LET y == CHOOSE yy \in (n \div 366)..((n \div 365) + 1) :
                 DaysBeforeYear(yy) < n /\ n <= DaysBeforeYear(yy + 1)
        k == n - DaysBeforeYear(y)
        m == CHOOSE mm \in 1..12 :
                 DaysBeforeMonth(y, mm) < k
                 /\ k <= DaysBeforeMonth(y, mm) + DaysInMonth(y, mm)
    IN  [year |-> y, month |-> m, day |-> k - DaysBeforeMonth(y, m)]

\* the dates the model handles, converted once
CalendarDays == ToOrdinal(2014, 1, 1)..ToOrdinal(2018, 12, 31)
Calendar == [n \in CalendarDays |-> fromordinal(n)]

YearOf(n) == Calendar[n].year
MonthOf(n) == Calendar[n].month
DayOf(n) == Calendar[n].day

\* the list `days` of graph_block, which is also `days_full` of main
days_full == <<"Sunday", "Monday", "Tuesday", "Wednesday",
               "Thursday", "Friday", "Saturday">>

\* d.strftime("%A"): ordinal 1 (0001-01-01) is a Monday
strftime_A(n) == days_full[(n % 7) + 1]

\* days.index(name)
days_index(name) == (CHOOSE i \in 1..7 : days_full[i] = name) - 1

\* today - relativedelta(years=1, days=7): the year first (February 29th
\* falls back to the 28th), then the days
MinusYearAndWeek(n) ==
    LET y == YearOf(n)
        m == MonthOf(n)
        d == DayOf(n)
        dd == IF d > DaysInMonth(y - 1, m) THEN DaysInMonth(y - 1, m) ELSE d
    IN  ToOrdinal(y - 1, m, dd) - 7

(***************************************************************************)
(* Module-level constants of githeat.py.                                   *)
(***************************************************************************)
COLORS_GRASS == <<0, 22, 28, 34, 40, 46>>
COLORS_SKY == <<0, 24, 31, 38, 45, 51>>
COLORS_FIRE == <<232, 220, 214, 208, 202, 196>>

BLOCK_THICK == "   "
BLOCK_REG == "  "
BLOCK_THIN == " "

\* Python's None, in the date position of a blank slot
None == 0

(***************************************************************************)
(* The state of one run.                                                   *)
(***************************************************************************)
VARIABLES
    pc,                     \* the statement the run is at
    today,                  \* datetime.date.today()
    cli,                    \* the parsed command line (parser.parse_args())
    git_state,              \* what Git(...).log does: "ok" or the exception it raises
    repo,                   \* the commits of the repository, as git log lists them
    BLOCK_WIDTH,            \* the globals main sets from the command line
    COLORS,
    SHOW_BY_DAY,
    MONTH_SEPARATION,
    raw_commits,            \* the lines git log returned
    commits_db,             \* commits by timestamp
    day_contribution_map,   \* date -> count, then date -> bucket
    sorted_nomr_daily_contribution,  \* the sorted dates, in graph_block
    idx,                    \* position of the for loop of graph_block
    matrix,                 \* the columns of graph_block
    rows,                   \* the slots graph_block printed, row by row
    messages,               \* the other lines printed to standard output
    exception,              \* the exception that ended the run, or "none"
    exit_status             \* the exit status, once pc = "exited"

vars == <<pc, today, cli, git_state, repo, BLOCK_WIDTH, COLORS, SHOW_BY_DAY,
          MONTH_SEPARATION, raw_commits, commits_db, day_contribution_map,
          sorted_nomr_daily_contribution, idx, matrix, rows, messages,
          exception, exit_status>>

(***************************************************************************)
(* graph_block: slots and the class Column.                                *)
(***************************************************************************)
\* a string as printed: plain, or wrapped by xtermcolor.colorize in the
\* escape sequences that set the background colour (the output is a colour
\* terminal), so that a coloured block is never equal to the plain one
Plain(text) == [esc |-> FALSE, ansi_bg |-> 0, text |-> text]
colorize(text, ansi_bg) == [esc |-> TRUE, ansi_bg |-> ansi_bg, text |-> text]

\* [None, BLOCK_WIDTH]
BlankSlot(width) == [date |-> None, block |-> Plain(width)]

\* [current_day, colorize(BLOCK_WIDTH, ansi=0, ansi_bg=color)]
DaySlot(current_day, width, color) ==
    [date |-> current_day, block |-> colorize(width, color)]

\* Column.__init__
Column(full_empty_col, width) ==
    IF full_empty_col THEN [k \in 1..7 |-> BlankSlot(width)] ELSE <<>>

\* append with its bound off by one (len(self.col) > 7)
append_off_by_one(col, val) ==
    IF Len(col) > 7
    THEN [raised |-> TRUE, col |-> col]
    ELSE [raised |-> FALSE, col |-> Append(col, val)]

\* Column.append: raised |-> TRUE stands for the ValueError
append(col, val) ==
    IF Len(col) >= 7
    THEN [raised |-> TRUE, col |-> col]
    ELSE [raised |-> FALSE, col |-> Append(col, val)]

\* Column.fill loops while len(self.col) != 7: it ends only from a column
\* of at most 7 slots
fill_terminates(col) == Len(col) <= 7

fill(col, width) == col \o [k \in 1..(7 - Len(col)) |-> BlankSlot(width)]

\* fill_by padding one slot too few
fill_by_one_less(col, first_x, width) ==
    col \o [k \in 1..(first_x - 1) |-> BlankSlot(width)]

\* Column.fill_by
fill_by(col, first_x, width) == col \o [k \in 1..first_x |-> BlankSlot(width)]

\* sorted(day_contribution_map)
RECURSIVE sorted(_)
sorted(S) ==
    IF S = {} THEN <<>>
    ELSE LET m == CHOOSE x \in S : \A y \in S : x <= y
         IN  <<m>> \o sorted(S \ {m})

\* the while loop of lines 206-209: one blank per day walked back to the
\* Saturday before first_day
RECURSIVE PadBack(_, _, _)
PadBack(d, c, width) ==
    IF strftime_A(d) = "Saturday" THEN c
    ELSE PadBack(d - 1, append(c, BlankSlot(width)).col, width)

last(m) == m[Len(m)]
SetLast(m, col) == [m EXCEPT ![Len(m)] = col]

(***************************************************************************)
(* graph_block, statement by statement.                                    *)
(***************************************************************************)
GraphUnchanged ==
    UNCHANGED <<today, cli, git_state, repo, BLOCK_WIDTH, COLORS, SHOW_BY_DAY,
                MONTH_SEPARATION, raw_commits, commits_db, day_contribution_map,
                messages, exit_status>>

\* lines 162 and 202-213: sort the dates and open the first column
GraphFirstColumn ==
    /\ pc = "graph_block"
    /\ LET s == sorted(DOMAIN day_contribution_map)
           first_day == s[1]
       IN  /\ sorted_nomr_daily_contribution' = s
           /\ matrix' =
                IF strftime_A(first_day) # "Sunday"
                THEN <<PadBack(first_day - 1, Column(FALSE, BLOCK_WIDTH), BLOCK_WIDTH)>>
                ELSE <<Column(FALSE, BLOCK_WIDTH)>>
    /\ idx' = 1
    /\ pc' = "append"
    /\ UNCHANGED <<rows, exception>>
    /\ GraphUnchanged

\* lines 215-231: put current_day into the last column, or into a new one
\* when the last column raises ValueError
AppendDay ==
    /\ pc = "append"
    /\ LET current_day == sorted_nomr_daily_contribution[idx]
           norm_day_contribution == day_contribution_map[current_day]
           color == COLORS[norm_day_contribution + 1]
           slot == DaySlot(current_day, BLOCK_WIDTH, color)
           tried == append(last(matrix), slot)
       IN  matrix' =
             IF ~tried.raised
             THEN SetLast(matrix, tried.col)
             ELSE Append(matrix, append(Column(FALSE, BLOCK_WIDTH), slot).col)
    /\ pc' = "rollover"
    /\ UNCHANGED <<sorted_nomr_daily_contribution, idx, rows, exception>>
    /\ GraphUnchanged

\* lines 233-247: at the last day of a month, close the column, add the
\* separator column and open the pre-padded column of the next month
MonthRollover ==
    /\ pc = "rollover"
    /\ LET current_day == sorted_nomr_daily_contribution[idx]
           next_day == current_day + 1
           more == idx < Len(sorted_nomr_daily_contribution)
       IN  IF MonthOf(next_day) # MonthOf(current_day)
           THEN IF fill_terminates(last(matrix))
                THEN /\ matrix' =
                          SetLast(matrix, fill(last(matrix), BLOCK_WIDTH))
                          \o <<Column(TRUE, BLOCK_WIDTH)>>
                          \o <<fill_by(Column(FALSE, BLOCK_WIDTH),
                                       days_index(strftime_A(next_day)),
                                       BLOCK_WIDTH)>>
                     /\ idx' = idx + 1
                     /\ pc' = IF more THEN "append" ELSE "final_fill"
                ELSE /\ pc' = "hang"
                     /\ UNCHANGED <<matrix, idx>>
           ELSE /\ idx' = idx + 1
                /\ pc' = IF more THEN "append" ELSE "final_fill"
                /\ UNCHANGED matrix
    /\ UNCHANGED <<sorted_nomr_daily_contribution, rows, exception>>
    /\ GraphUnchanged

\* line 251: matrix[-1].fill()
FinalFill ==
    /\ pc = "final_fill"
    /\ IF fill_terminates(last(matrix))
       THEN /\ matrix' = SetLast(matrix, fill(last(matrix), BLOCK_WIDTH))
            /\ pc' = "render"
       ELSE /\ pc' = "hang"
            /\ UNCHANGED matrix
    /\ UNCHANGED <<sorted_nomr_daily_contribution, idx, rows, exception>>
    /\ GraphUnchanged

\* the test of line 256 without its `not`
Skipped_when_separated(slot) == MONTH_SEPARATION /\ slot.block = Plain(BLOCK_WIDTH)

\* line 256-258: the slot is skipped when month separation is off and its
\* block is the bare BLOCK_WIDTH
Skipped(slot) == (~MONTH_SEPARATION) /\ slot.block = Plain(BLOCK_WIDTH)

\* the slots line 260 prints in row i (i = 0..6), in column order
RECURSIVE PrintedRow(_, _, _)
PrintedRow(m, i, k) ==
    IF k > Len(m) THEN <<>>
    ELSE (IF Skipped(m[k][i + 1]) THEN <<>> ELSE <<m[k][i + 1]>>)
         \o PrintedRow(m, i, k + 1)

\* lines 253-261: print the seven rows; week.col[i] of a column shorter
\* than i + 1 raises IndexError
Render ==
    /\ pc = "render"
    /\ IF \A k \in 1..Len(matrix) : Len(matrix[k]) >= 7
       THEN /\ rows' = [i \in 1..7 |-> PrintedRow(matrix, i - 1, 1)]
            /\ pc' = "returned"
            /\ UNCHANGED exception
       ELSE /\ exception' = "IndexError"
            /\ pc' = "raised"
            /\ UNCHANGED rows
    /\ UNCHANGED <<sorted_nomr_daily_contribution, idx, matrix>>
    /\ GraphUnchanged

(***************************************************************************)
(* normalize.                                                              *)
(***************************************************************************)
min(S) == CHOOSE x \in S : \A y \in S : x <= y
max(S) == CHOOSE x \in S : \A y \in S : x >= y
values(dictionary) == {dictionary[key] : key \in DOMAIN dictionary}

\* math.floor in place of math.ceil
ceil_as_floor(a, b) == a \div b

\* math.ceil(a / b) for a >= 0 and b > 0.  The program computes a / b and
\* the products in floats; for the counts of a window the float result has
\* the same ceiling as the exact quotient.
ceil(a, b) == (a + b - 1) \div b

\* line 60 raises ZeroDivisionError (float division by zero) when every
\* value is the same
normalize_raises(dictionary) == max(values(dictionary)) - min(values(dictionary)) = 0

\* lines 59-65 with min_value and the two ranges computed: to [0, 1], then
\* to [x, y] and the ceiling
Rescale(dictionary, min_value, range1, x, range2) ==
    [key \in DOMAIN dictionary |->
        ceil((dictionary[key] - min_value) * range2, range1) + x]

\* lines 56-67, when line 60 does not raise
normalize(dictionary, x, y) ==
    Rescale(dictionary,
            min(values(dictionary)),
            max(values(dictionary)) - min(values(dictionary)),
            x,
            y - x)

(***************************************************************************)
(* main, statement by statement.                                           *)
(***************************************************************************)
\* the list `days` of line 342
days == <<"sun", "sat", "mon", "tues", "wedn", "thur", "fri">>

\* lines 320-328
WidthOf(width) ==
    IF width = "thick" THEN BLOCK_THICK
    ELSE IF width = "reg" THEN BLOCK_REG ELSE BLOCK_THIN

\* lines 330-338
PaletteOf(color) ==
    IF color = "grass" THEN COLORS_GRASS
    ELSE IF color = "sky" THEN COLORS_SKY ELSE COLORS_FIRE

\* line 346: days_full[days.index(cli.day.lower())]
ShowByDay(day) == days_full[CHOOSE k \in 1..7 : days[k] = day]

\* lines 314-362: set the globals from the command line ("none" is an
\* option not given; SHOW_BY_DAY starts as False)
ParseArgs ==
    /\ pc = "main"
    /\ BLOCK_WIDTH' = WidthOf(cli.width)
    /\ COLORS' = PaletteOf(cli.color)
    /\ SHOW_BY_DAY' = IF cli.day # "none" THEN ShowByDay(cli.day) ELSE "False"
    /\ MONTH_SEPARATION' = IF cli.merge THEN FALSE ELSE MONTH_SEPARATION
    /\ pc' = "git_log"
    /\ UNCHANGED <<today, cli, git_state, repo, raw_commits, commits_db,
                   day_contribution_map, sorted_nomr_daily_contribution, idx,
                   matrix, rows, messages, exception, exit_status>>

\* git log --since="1 year 7 days" [--author=...]: the commits no older
\* than that, by the author asked for
GitLogOutput ==
    LET since == MinusYearAndWeek(today)
        Listed(c) == /\ c.date.date >= since
                     /\ (cli.author = "none" \/ c.author = cli.author)
    IN  SelectSeq(repo, Listed)

\* lines 364-373 and 430-431: run git log; its exceptions are caught at
\* line 430, which prints one line and lets main return None
GitLog ==
    /\ pc = "git_log"
    /\ IF git_state = "ok"
       THEN /\ raw_commits' = GitLogOutput
            /\ pc' = "parse_log"
            /\ UNCHANGED messages
       ELSE /\ messages' = Append(messages,
                                  "Are you sure your in an initialized git directory?")
            /\ pc' = "returned"
            /\ UNCHANGED raw_commits
    /\ UNCHANGED <<today, cli, git_state, repo, BLOCK_WIDTH, COLORS, SHOW_BY_DAY,
                   MONTH_SEPARATION, commits_db, day_contribution_map,
                   sorted_nomr_daily_contribution, idx, matrix, rows,
                   exception, exit_status>>

\* line 381: the commit is dropped when a day is chosen and is not the
\* commit's weekday
DroppedByDay(rc) == SHOW_BY_DAY # "False" /\ SHOW_BY_DAY # strftime_A(rc.date.date)

\* lines 377-388: commits_db maps each timestamp to the list of its commits
RECURSIVE AddCommits(_, _, _)
AddCommits(db, lines, k) ==
    IF k > Len(lines) THEN db
    ELSE LET rc == lines[k]
             commit == [date |-> rc.date, author |-> rc.author]
         IN  IF DroppedByDay(rc) THEN AddCommits(db, lines, k + 1)
             ELSE IF rc.date \in DOMAIN db
                  THEN AddCommits([db EXCEPT ![rc.date] = Append(@, commit)],
                                  lines, k + 1)
                  ELSE AddCommits([t \in DOMAIN db \cup {rc.date} |->
                                      IF t = rc.date THEN <<commit>> ELSE db[t]],
                                  lines, k + 1)

\* lines 373-391: parse the lines into commits_db, or report that there is
\* none and sys.exit(0)
ParseLog ==
    /\ pc = "parse_log"
    /\ IF Len(raw_commits) > 0
       THEN /\ commits_db' = AddCommits(<<>>, raw_commits, 1)
            /\ pc' = "window"
            /\ UNCHANGED <<messages, exit_status>>
       ELSE /\ messages' = Append(messages, "No contribution found")
            /\ exit_status' = 0
            /\ pc' = "exited"
            /\ UNCHANGED commits_db
    /\ UNCHANGED <<today, cli, git_state, repo, BLOCK_WIDTH, COLORS, SHOW_BY_DAY,
                   MONTH_SEPARATION, raw_commits, day_contribution_map,
                   sorted_nomr_daily_contribution, idx, matrix, rows, exception>>

\* a window that keeps the days before the first Sunday too
FirstKept_no_skip(last_year, i, delta) == i

\* lines 402-409: the first i of range(delta.days + 1) that is not skipped,
\* the first whose day is a Sunday (delta + 1 when there is none)
RECURSIVE FirstKept(_, _, _)
FirstKept(last_year, i, delta) ==
    IF i > delta THEN i
    ELSE IF strftime_A(last_year + i) # "Sunday"
         THEN FirstKept(last_year, i + 1, delta)
         ELSE i

\* lines 403-410: a zero for each day last_year + i that is not skipped
ZeroDays(last_year, first, delta) ==
    [current_day \in (last_year + first)..(last_year + delta) |-> 0]

\* lines 395-410: a zero for every day from the first Sunday to today
WindowInit ==
    /\ pc = "window"
    /\ LET last_year == MinusYearAndWeek(today)
           delta == today - last_year
       IN  day_contribution_map' =
               ZeroDays(last_year, FirstKept(last_year, 0, delta), delta)
    /\ pc' = "aggregate"
    /\ UNCHANGED <<today, cli, git_state, repo, BLOCK_WIDTH, COLORS, SHOW_BY_DAY,
                   MONTH_SEPARATION, raw_commits, commits_db,
                   sorted_nomr_daily_contribution, idx, matrix, rows, messages,
                   exception, exit_status>>

\* line 414: datetime.date(dt.year, dt.month, dt.day)
contribution_day(dt) == dt.date

\* lines 413-416: each dt of dates adds 1.0 to its day when that day is a
\* key of the map
AddContributions(map, dates) ==
    [d \in DOMAIN map |->
        map[d] + Cardinality({dt \in dates : contribution_day(dt) = d})]

\* lines 393 and 412-416: one more for every key of commits_db whose day is
\* in the window
Aggregate ==
    /\ pc = "aggregate"
    /\ day_contribution_map' =
           AddContributions(day_contribution_map, DOMAIN commits_db)
    /\ pc' = "normalize"
    /\ UNCHANGED <<today, cli, git_state, repo, BLOCK_WIDTH, COLORS, SHOW_BY_DAY,
                   MONTH_SEPARATION, raw_commits, commits_db,
                   sorted_nomr_daily_contribution, idx, matrix, rows, messages,
                   exception, exit_status>>

\* line 419: normalize in place; its ZeroDivisionError is not among the
\* exceptions line 430 catches.  GRAPH_INLINE is False: graph_block is next.
Normalize ==
    /\ pc = "normalize"
    /\ IF normalize_raises(day_contribution_map)
       THEN /\ exception' = "ZeroDivisionError"
            /\ pc' = "raised"
            /\ UNCHANGED day_contribution_map
       ELSE /\ day_contribution_map' = normalize(day_contribution_map, 0, 5)
            /\ pc' = "graph_block"
            /\ UNCHANGED exception
    /\ UNCHANGED <<today, cli, git_state, repo, BLOCK_WIDTH, COLORS, SHOW_BY_DAY,
                   MONTH_SEPARATION, raw_commits, commits_db,
                   sorted_nomr_daily_contribution, idx, matrix, rows, messages,
                   exit_status>>

\* lines 434-435: sys.exit(main()) with main returning None exits with 0
MainReturns ==
    /\ pc = "returned"
    /\ exit_status' = 0
    /\ pc' = "exited"
    /\ UNCHANGED <<today, cli, git_state, repo, BLOCK_WIDTH, COLORS, SHOW_BY_DAY,
                   MONTH_SEPARATION, raw_commits, commits_db, day_contribution_map,
                   sorted_nomr_daily_contribution, idx, matrix, rows, messages,
                   exception>>

\* an exception that leaves main ends the interpreter with a traceback and
\* status 1
UncaughtException ==
    /\ pc = "raised"
    /\ exit_status' = 1
    /\ pc' = "exited"
    /\ UNCHANGED <<today, cli, git_state, repo, BLOCK_WIDTH, COLORS, SHOW_BY_DAY,
                   MONTH_SEPARATION, raw_commits, commits_db, day_contribution_map,
                   sorted_nomr_daily_contribution, idx, matrix, rows, messages,
                   exception>>

(***************************************************************************)
(* SpecGrid: graph_block on every window of consecutive days.              *)
(***************************************************************************)
\* first days of the windows: every day of 2016
GridFirstDays == ToOrdinal(2016, 1, 1)..ToOrdinal(2016, 12, 31)

\* the block width and the palette are the defaults of --width and --color
\* the command line without options (the defaults of lines 278-312)
NoArgs == [day |-> "none", merge |-> FALSE, author |-> "none",
           width |-> "reg", color |-> "grass"]

InitGrid ==
    /\ pc = "graph_block"
    /\ today = 0
    /\ cli = NoArgs
    /\ git_state = "ok"
    /\ repo = <<>>
    /\ BLOCK_WIDTH = BLOCK_REG
    /\ COLORS = COLORS_GRASS
    /\ SHOW_BY_DAY = "False"
    /\ MONTH_SEPARATION \in BOOLEAN
    /\ raw_commits = <<>>
    /\ commits_db = <<>>
    /\ \E first_day \in GridFirstDays, n \in 1..MaxLen :
          day_contribution_map =
              [d \in first_day..(first_day + n - 1) |-> (d - first_day) % 6]
    /\ sorted_nomr_daily_contribution = <<>>
    /\ idx = 0
    /\ matrix = <<>>
    /\ rows = <<>>
    /\ messages = <<>>
    /\ exception = "none"
    /\ exit_status = 0

NextGrid ==
    \/ GraphFirstColumn
    \/ AppendDay
    \/ MonthRollover
    \/ FinalFill
    \/ Render

SpecGrid == InitGrid /\ [][NextGrid]_vars

(***************************************************************************)
(* Claims about graph_block, checked under SpecGrid.                       *)
(***************************************************************************)
Window == DOMAIN day_contribution_map
Built == pc \in {"render", "returned"}
IsBlank(slot) == slot.date = None
AllBlank(col) == \A r \in 1..Len(col) : IsBlank(col[r])
\* the positions (column, row) of the matrix
Positions == {p \in (1..Len(matrix)) \X (1..7) : p[2] <= Len(matrix[p[1]])}
SlotAt(p) == matrix[p[1]][p[2]]
Before(p, q) == p[1] < q[1] \/ (p[1] = q[1] /\ p[2] < q[2])
\* row index of a date: Sunday = 0 ... Saturday = 6
WeekdayIndex(d) == d % 7

\* C1: no column ever holds more than 7 slots while graph_block builds the
\* matrix (so neither fill nor the rendering fails), and once building has
\* finished every column, separator and trailing column included, holds
\* exactly 7 slots.
C1_ColumnsHoldSeven ==
    /\ \A k \in 1..Len(matrix) : Len(matrix[k]) <= 7
    /\ pc # "hang"
    /\ exception = "none"
    /\ Built => \A k \in 1..Len(matrix) : Len(matrix[k]) = 7

\* a finished matrix with a full week closed by ValueError, a separator
\* column and an all-blank trailing column (the window ends a month)
C1_Witness ==
    /\ pc = "returned"
    /\ Len(sorted_nomr_daily_contribution) >= 9
    /\ Len(matrix) >= 4
    /\ \E k \in 1..Len(matrix) : \A r \in 1..7 : ~IsBlank(matrix[k][r])
    /\ AllBlank(matrix[Len(matrix) - 1])
    /\ AllBlank(matrix[Len(matrix)])
    /\ strftime_A(sorted_nomr_daily_contribution[1]) # "Sunday"

\* C2: in the finished matrix every Day of the window is in exactly one
\* slot, in the row of its weekday, Days are in chronological order across
\* the columns, every other slot is blank, so the non-blank slots are as
\* many as the Days, with month separation on or off; the first Day of a
\* month that follows a rollover has exactly its weekday index of blanks
\* before it in its column.  While building, every Day placed so far is in
\* the row of its weekday.
C2_DaysInWeekdayRows ==
    LET P == Positions
        Days == {p \in P : ~IsBlank(SlotAt(p))}
    IN  /\ \A p \in Days :
              /\ SlotAt(p).date \in Window
              /\ p[2] - 1 = WeekdayIndex(SlotAt(p).date)
        /\ \A p \in P \ Days : SlotAt(p) = BlankSlot(BLOCK_WIDTH)
        /\ Built =>
              /\ \A d \in Window :
                    Cardinality({p \in Days : SlotAt(p).date = d}) = 1
              /\ Cardinality(Days) = Cardinality(Window)
              /\ \A p, q \in Days :
                    Before(p, q) => SlotAt(p).date < SlotAt(q).date
              /\ \A p \in Days :
                    (DayOf(SlotAt(p).date) = 1 /\ (SlotAt(p).date - 1) \in Window)
                        => /\ p[2] = WeekdayIndex(SlotAt(p).date) + 1
                           /\ \A r \in 1..(p[2] - 1) : IsBlank(matrix[p[1]][r])

\* a finished matrix whose window crosses a month end in the middle of a
\* week: the first Day of the new month sits after at least one blank
C2_Witness ==
    /\ pc = "returned"
    /\ Len(sorted_nomr_daily_contribution) >= 9
    /\ \E p \in Positions :
          /\ ~IsBlank(SlotAt(p))
          /\ DayOf(SlotAt(p).date) = 1
          /\ (SlotAt(p).date - 1) \in Window
          /\ p[2] >= 4
          /\ \A r \in 1..(p[2] - 1) : IsBlank(matrix[p[1]][r])

\* the dates of a sequence of slots
Dates(slots) == [k \in 1..Len(slots) |-> slots[k].date]
\* the k-th week of the window: its k-th run of seven days, a calendar week
\* (Sunday to Saturday) when the window starts on a Sunday as in main
WeekOfWindow(d) == ((d - sorted_nomr_daily_contribution[1]) \div 7) + 1

\* C10: with month separation off, row r of the output is exactly the Days
\* of weekday r in chronological order (no blank and no separator slot is
\* printed, every Day is printed once), and the k-th block of every row is
\* a Day of the k-th week of the window; with month separation on, row r
\* is slot r of every column, blank or not.
C10_RenderedRows ==
    pc = "returned" =>
        /\ Len(rows) = 7
        /\ (~MONTH_SEPARATION) =>
              \A r \in 1..7 :
                  /\ Dates(rows[r]) = sorted({d \in Window : WeekdayIndex(d) = r - 1})
                  /\ \A k \in 1..Len(rows[r]) :
                        /\ ~IsBlank(rows[r][k])
                        /\ WeekOfWindow(rows[r][k].date) = k
        /\ MONTH_SEPARATION =>
              \A r \in 1..7 : rows[r] = [k \in 1..Len(matrix) |-> matrix[k][r]]

\* a rendering with month separation off of a matrix that holds a
\* separator column and padding blanks before the first Day of a month
C10_Witness ==
    /\ pc = "returned"
    /\ ~MONTH_SEPARATION
    /\ Len(sorted_nomr_daily_contribution) >= 9
    /\ \E k \in 2..(Len(matrix) - 1) :
          /\ AllBlank(matrix[k])
          /\ IsBlank(matrix[k + 1][1])
          /\ ~AllBlank(matrix[k + 1])
    /\ Len(rows[1]) >= 2

(***************************************************************************)
(* SpecNorm: normalize(day_contribution_map, 0, 5) on its own.             *)
(***************************************************************************)
\* the first day of the dictionaries handed to normalize, a Sunday
NormFirstDay == ToOrdinal(2016, 1, 3)

\* every dictionary of up to MaxKeys days with counts up to MaxCount, and
\* the 14-day dictionaries with one day of commits
NormInputs ==
    UNION {[(NormFirstDay..(NormFirstDay + n - 1)) -> 0..MaxCount] : n \in 1..MaxKeys}
    \cup {[d \in NormFirstDay..(NormFirstDay + 13) |-> IF d = hot THEN c ELSE 0] :
              hot \in NormFirstDay..(NormFirstDay + 13), c \in 1..MaxCount}

InitNorm ==
    /\ pc = "normalize"
    /\ today = 0
    /\ cli = NoArgs
    /\ git_state = "ok"
    /\ repo = <<>>
    /\ BLOCK_WIDTH = BLOCK_REG
    /\ COLORS = COLORS_GRASS
    /\ SHOW_BY_DAY = "False"
    /\ MONTH_SEPARATION = TRUE
    /\ raw_commits = <<>>
    /\ commits_db = <<>>
    /\ day_contribution_map \in NormInputs
    /\ sorted_nomr_daily_contribution = <<>>
    /\ idx = 0
    /\ matrix = <<>>
    /\ rows = <<>>
    /\ messages = <<>>
    /\ exception = "none"
    /\ exit_status = 0

NextNorm == Normalize

SpecNorm == InitNorm /\ [][NextNorm]_vars

\* C4: when the counts are not all equal, normalize gives every Day the
\* bucket ceil(5 * (count - min) / (max - min)): the least integer b with
\* b * (max - min) >= 5 * (count - min); it lies in 0..5, it is 0 for a Day
\* with the minimum count and 5 for a Day with the maximum count.
C4_BucketIsCeiling ==
    [][(pc = "normalize" /\ ~(\A d, e \in Window :
                                day_contribution_map[d] = day_contribution_map[e]))
       => LET count == day_contribution_map
              lo == min(values(count))
              hi == max(values(count))
          IN  /\ pc' = "graph_block"
              /\ exception' = "none"
              /\ DOMAIN day_contribution_map' = DOMAIN count
              /\ \A d \in DOMAIN count :
                    LET b == day_contribution_map'[d]
                    IN  /\ b \in 0..5
                        /\ b * (hi - lo) >= 5 * (count[d] - lo)
                        /\ (b - 1) * (hi - lo) < 5 * (count[d] - lo)
                        /\ (count[d] = lo => b = 0)
                        /\ (count[d] = hi => b = 5)]_vars

\* the outcome of scenario A: 14 days normalized, one in bucket 5 and 13 in
\* bucket 0
C4_Witness ==
    /\ pc = "graph_block"
    /\ Cardinality(Window) = 14
    /\ Cardinality({d \in Window : day_contribution_map[d] = 5}) = 1
    /\ Cardinality({d \in Window : day_contribution_map[d] = 0}) = 13

(***************************************************************************)
(* SpecWindow: the window of main for every today of 2016 and 2017.        *)
(***************************************************************************)
WindowTodays == ToOrdinal(2016, 1, 1)..ToOrdinal(2017, 12, 31)

InitWindow ==
    /\ pc = "window"
    /\ today \in WindowTodays
    /\ cli = NoArgs
    /\ git_state = "ok"
    /\ repo = <<>>
    /\ BLOCK_WIDTH = BLOCK_REG
    /\ COLORS = COLORS_GRASS
    /\ SHOW_BY_DAY = "False"
    /\ MONTH_SEPARATION = TRUE
    /\ raw_commits = <<>>
    /\ commits_db = <<>>
    /\ day_contribution_map = <<>>
    /\ sorted_nomr_daily_contribution = <<>>
    /\ idx = 0
    /\ matrix = <<>>
    /\ rows = <<>>
    /\ messages = <<>>
    /\ exception = "none"
    /\ exit_status = 0

NextWindow == WindowInit

SpecWindow == InitWindow /\ [][NextWindow]_vars

\* the date one year and seven days before d: the same month and day of
\* the year before (the 28th for February 29th), then seven days back
IsYearAndWeekBefore(r, d) ==
    /\ YearOf(r + 7) = YearOf(d) - 1
    /\ MonthOf(r + 7) = MonthOf(d)
    /\ \/ DayOf(r + 7) = DayOf(d)
       \/ (MonthOf(d) = 2 /\ DayOf(d) = 29 /\ DayOf(r + 7) = 28)

\* C3: for every today, the window main initialises starts on a Sunday,
\* the first Sunday at or after today minus 1 year minus 7 days, and holds
\* one Day of count zero for every date from that Sunday to today, and no
\* other date.
C3_WindowStartsOnSunday ==
    pc = "aggregate" =>
        \E rawStart \in (today - 380)..(today - 365) :
            /\ IsYearAndWeekBefore(rawStart, today)
            /\ LET windowStart == min(Window)
               IN  /\ strftime_A(windowStart) = "Sunday"
                   /\ windowStart >= rawStart
                   /\ \A d \in rawStart..(windowStart - 1) : strftime_A(d) # "Sunday"
                   /\ Window = windowStart..today
                   /\ \A d \in Window : day_contribution_map[d] = 0

\* a window initialised on a February 29th whose raw start is not a
\* Sunday: days are skipped up to the first Sunday
C3_Witness ==
    /\ pc = "aggregate"
    /\ MonthOf(today) = 2 /\ DayOf(today) = 29
    /\ strftime_A(MinusYearAndWeek(today)) # "Sunday"
    /\ min(Window) > MinusYearAndWeek(today)

(***************************************************************************)
(* SpecMain: a run of main up to the call of graph_block.                  *)
(***************************************************************************)
\* a leap day (a Monday) and a Wednesday; for both, today minus 1 year
\* minus 7 days is not a Sunday
MainTodays == {ToOrdinal(2016, 2, 29), ToOrdinal(2016, 3, 9)}

Authors == {"alice", "bob"}

\* command lines: every --day, --merge or not, --author or not
CommandLines ==
    [day : {"none"} \cup {days[k] : k \in 1..7},
     merge : BOOLEAN,
     author : {"none"} \cup Authors,
     width : {"reg"},
     color : {"grass"}]

\* the timestamps of the commits: two on today, one the day before, one on
\* the first day git log lists (before the first Sunday), one older
CommitTimes(t) ==
    {[date |-> t, time |-> 1], [date |-> t, time |-> 2],
     [date |-> t - 1, time |-> 1],
     [date |-> MinusYearAndWeek(t), time |-> 1],
     [date |-> t - 500, time |-> 1]}

Histories(t) ==
    UNION {[1..n -> [date : CommitTimes(t), author : Authors]] : n \in 0..MaxCommits}

GitErrors == {"InvalidGitRepositoryError", "GitCommandError", "GitCommandNotFound"}

InitMain ==
    /\ pc = "main"
    /\ today \in MainTodays
    /\ cli \in CommandLines
    /\ \/ git_state = "ok" /\ repo \in Histories(today)
       \/ git_state \in GitErrors /\ repo = <<>>
    /\ BLOCK_WIDTH = BLOCK_REG
    /\ COLORS = COLORS_GRASS
    /\ SHOW_BY_DAY = "False"
    /\ MONTH_SEPARATION = TRUE
    /\ raw_commits = <<>>
    /\ commits_db = <<>>
    /\ day_contribution_map = <<>>
    /\ sorted_nomr_daily_contribution = <<>>
    /\ idx = 0
    /\ matrix = <<>>
    /\ rows = <<>>
    /\ messages = <<>>
    /\ exception = "none"
    /\ exit_status = 0

NextMain ==
    \/ ParseArgs
    \/ GitLog
    \/ ParseLog
    \/ WindowInit
    \/ Aggregate
    \/ Normalize
    \/ MainReturns
    \/ UncaughtException

SpecMain == InitMain /\ [][NextMain]_vars

\* C5: when every Day of the window has the same count, normalization gives
\* every Day bucket 0 and raises nothing.
C5_DegenerateGivesZero ==
    [][(pc = "normalize" /\ \A d, e \in Window :
                               day_contribution_map[d] = day_contribution_map[e])
       => /\ exception' = "none"
          /\ pc' # "raised"
          /\ \A d \in Window : day_contribution_map'[d] = 0]_vars

\* the Events: the lines of the log that pass the weekday filter
Events == {k \in 1..Len(raw_commits) : ~DroppedByDay(raw_commits[k])}

\* C6: after aggregation each Day's count is the number of Events of that
\* calendar date, Events of one timestamp counted one by one.
C6_CountIsNumberOfEvents ==
    pc = "normalize" =>
        \A d \in Window :
            day_contribution_map[d] =
                Cardinality({k \in Events : contribution_day(raw_commits[k].date) = d})

\* the weekday each option of --day names
ChosenWeekday(day) ==
    CASE day = "sun" -> "Sunday"
      [] day = "mon" -> "Monday"
      [] day = "tues" -> "Tuesday"
      [] day = "wedn" -> "Wednesday"
      [] day = "thur" -> "Thursday"
      [] day = "fri" -> "Friday"
      [] day = "sat" -> "Saturday"

\* C7: with --day given, the commits kept in commits_db are exactly the
\* commits of the log made on the chosen weekday.
C7_DayFilterKeepsChosenWeekday ==
    (pc = "window" /\ cli.day # "none") =>
        \A k \in 1..Len(raw_commits) :
            (raw_commits[k].date \in DOMAIN commits_db)
                <=> (strftime_A(raw_commits[k].date.date) = ChosenWeekday(cli.day))

\* the commits that count: listed by git log, kept by the weekday filter,
\* dated from the first Sunday of the window to today
InRange(c) ==
    LET since == MinusYearAndWeek(today)
        windowStart == since + FirstKept(since, 0, today - since)
    IN  /\ c.date.date >= since
        /\ (cli.author = "none" \/ c.author = cli.author)
        /\ (cli.day = "none" \/ ShowByDay(cli.day) = strftime_A(c.date.date))
        /\ c.date.date \in windowStart..today

\* C8: when no event lies in range, the run prints the no-contribution
\* message, prints no grid and exits cleanly.
C8_EmptyResultWhenNothingInRange ==
    (pc = "exited" /\ git_state = "ok"
     /\ \A k \in 1..Len(repo) : ~InRange(repo[k]))
        => /\ messages = <<"No contribution found">>
           /\ rows = <<>>
           /\ exception = "none"
           /\ exit_status = 0

\* C9: when git log fails, the run prints one message, no grid, and exits
\* with a non-zero status.
C9_SourceUnavailableExitsNonZero ==
    (pc = "exited" /\ git_state # "ok")
        => /\ Len(messages) = 1
           /\ rows = <<>>
           /\ exit_status # 0

====
